---- MODULE Spec2Model ----
(***************************************************************************)
(* Model of rust_core/src/lib.rs of Fast-Finder: the persisted index       *)
(* cache (load_cache / save_cache), the metadata classifier                *)
(* (get_file_kind / get_best_date) and the exported operations             *)
(* load_cached_index, rebuild_index, search_files and get_recent_files.    *)
(*                                                                         *)
(* Strings whose characters matter (file names, paths, queries) are        *)
(* sequences of one-character strings.  The cache file is a sequence of    *)
(* JSON tokens, each written at a file offset.                             *)
(***************************************************************************)
EXTENDS Integers, Sequences, FiniteSets, TLC

(***************************************************************************)
(* Bounds of the model.                                                    *)
(***************************************************************************)
\* the number of walker threads explored (the code asks for 4)
NumWorkers == 2
\* walks of more entries than this are explored under one worker only,
\* which takes the entries in directory order
MaxInterleaved == 6
\* the number of entries of the bulk directory of the large home directory
BulkFiles == 52
\* the number of clock ticks explored after the initial time
MaxTicks == 1
\* the number of nested directories of the deep home directory
DeepLevels == 6
\* the number of matches the crowded home directory has beyond the cap of
\* the sink
ExtraMatches == 3
\* the longest list of paths given to a file operation
MaxPaths == 2
\* in a walk explored under one worker, all workers are explored from the
\* point where the sink is this many entries short of its cap
CapWindow == 2

(***************************************************************************)
(* Program constants.                                                      *)
(***************************************************************************)
SINK_CAP == 2000
RESULT_CAP == 50
WEEK_SECS == 60 * 60 * 24 * 7
REBUILD_MAX_DEPTH == 5
SEARCH_MAX_DEPTH == 6

\* the time of the first call, in seconds since the epoch
T0 == 2000000

(***************************************************************************)
(* Characters and strings.                                                 *)
(***************************************************************************)
UpperChars ==
    <<"A", "B", "C", "D", "E", "F", "G", "H", "I", "J", "K", "L", "M", "N", "O", "P", "Q", "R", "S", "T", "U", "V", "W", "X", "Y", "Z">>
LowerChars ==
    <<"a", "b", "c", "d", "e", "f", "g", "h", "i", "j", "k", "l", "m", "n", "o", "p", "q", "r", "s", "t", "u", "v", "w", "x", "y", "z">>

IsUpperCh(c) == \E i \in DOMAIN UpperChars : UpperChars[i] = c
IsLowerCh(c) == \E i \in DOMAIN LowerChars : LowerChars[i] = c

ToLowerCh(c) ==
    IF IsUpperCh(c)
    THEN LowerChars[CHOOSE i \in DOMAIN UpperChars : UpperChars[i] = c]
    ELSE c

ToUpperCh(c) ==
    IF IsLowerCh(c)
    THEN UpperChars[CHOOSE i \in DOMAIN LowerChars : LowerChars[i] = c]
    ELSE c

\* str::to_lowercase / str::to_uppercase
to_lowercase(s) == [i \in DOMAIN s |-> ToLowerCh(s[i])]
to_uppercase(s) == [i \in DOMAIN s |-> ToUpperCh(s[i])]

WhiteChars == {" ", "\t"}

\* str::trim: strips leading and trailing whitespace
RECURSIVE TrimStart(_)
TrimStart(s) ==
    IF s # <<>> /\ Head(s) \in WhiteChars THEN TrimStart(Tail(s)) ELSE s

RECURSIVE TrimEnd(_)
TrimEnd(s) ==
    IF s # <<>> /\ s[Len(s)] \in WhiteChars
    THEN TrimEnd(SubSeq(s, 1, Len(s) - 1))
    ELSE s

\* trim left out: query.is_empty()
trim_left_out(s) == s

trim(s) == TrimEnd(TrimStart(s))

(***************************************************************************)
(* Option values: None, or Some(v).                                        *)
(***************************************************************************)
None == [some |-> FALSE, v |-> <<>>]
Some(x) == [some |-> TRUE, v |-> x]

(***************************************************************************)
(* Path::extension of a path whose final component is `name`: the part     *)
(* after the last dot; None without a dot, or when the only dot is the     *)
(* leading one.                                                            *)
(***************************************************************************)
LastDot(name) ==
    IF \E i \in DOMAIN name : name[i] = "."
    THEN CHOOSE i \in DOMAIN name :
            /\ name[i] = "."
            /\ \A j \in DOMAIN name : name[j] = "." => j <= i
    ELSE 0

extension(name) ==
    IF LastDot(name) <= 1
    THEN None
    ELSE Some(SubSeq(name, LastDot(name) + 1, Len(name)))

(***************************************************************************)
(* get_file_kind.  A label is [label, ext]: a fixed label has ext = <<>>,  *)
(* and the fallback format!("{} File", EXT) has label "{} File".           *)
(***************************************************************************)
KindTable ==
    <<
      <<<<"p", "d", "f">>, "PDF Document">>,
      <<<<"d", "o", "c">>, "Word Document">>,
      <<<<"d", "o", "c", "x">>, "Word Document">>,
      <<<<"x", "l", "s">>, "Excel Spreadsheet">>,
      <<<<"x", "l", "s", "x">>, "Excel Spreadsheet">>,
      <<<<"p", "p", "t">>, "Presentation">>,
      <<<<"p", "p", "t", "x">>, "Presentation">>,
      <<<<"t", "x", "t">>, "Plain Text">>,
      <<<<"m", "d">>, "Markdown">>,
      <<<<"h", "t", "m", "l">>, "HTML Document">>,
      <<<<"h", "t", "m">>, "HTML Document">>,
      <<<<"c", "s", "s">>, "CSS Stylesheet">>,
      <<<<"j", "s">>, "JavaScript">>,
      <<<<"t", "s">>, "TypeScript">>,
      <<<<"j", "s", "o", "n">>, "JSON">>,
      <<<<"p", "y">>, "Python Script">>,
      <<<<"r", "s">>, "Rust Source">>,
      <<<<"s", "w", "i", "f", "t">>, "Swift Source">>,
      <<<<"j", "a", "v", "a">>, "Java Source">>,
      <<<<"g", "o">>, "Go Source">>,
      <<<<"c">>, "C Source">>,
      <<<<"h">>, "C Source">>,
      <<<<"c", "p", "p">>, "C++ Source">>,
      <<<<"h", "p", "p">>, "C++ Source">>,
      <<<<"j", "p", "g">>, "JPEG Image">>,
      <<<<"j", "p", "e", "g">>, "JPEG Image">>,
      <<<<"p", "n", "g">>, "PNG Image">>,
      <<<<"g", "i", "f">>, "GIF Image">>,
      <<<<"h", "e", "i", "c">>, "HEIC Image">>,
      <<<<"s", "v", "g">>, "SVG Image">>,
      <<<<"m", "p", "4">>, "MP4 Video">>,
      <<<<"m", "o", "v">>, "QuickTime Movie">>,
      <<<<"m", "p", "3">>, "MP3 Audio">>,
      <<<<"w", "a", "v">>, "WAV Audio">>,
      <<<<"z", "i", "p">>, "ZIP Archive">>,
      <<<<"d", "m", "g">>, "Disk Image">>,
      <<<<"a", "p", "p">>, "Application">>
    >>

FixedKind(l) == [label |-> l, ext |-> <<>>]

get_file_kind(name, is_folder) ==
    IF is_folder
    THEN FixedKind("Folder")
    ELSE LET e == extension(name) IN
         IF ~e.some
         THEN FixedKind("Document")
         ELSE IF \E i \in DOMAIN KindTable : KindTable[i][1] = e.v
              THEN FixedKind(
                     KindTable[CHOOSE i \in DOMAIN KindTable :
                                   KindTable[i][1] = e.v][2])
              ELSE [label |-> "{} File", ext |-> to_uppercase(e.v)]

(***************************************************************************)
(* get_best_date.  A timestamp of the metadata is [ok, secs]: ok is FALSE  *)
(* when modified()/created() fails, and a time before the epoch makes      *)
(* duration_since fail; both give 0.                                       *)
(***************************************************************************)
EpochSecs(t) == IF t.ok /\ t.secs >= 0 THEN t.secs ELSE 0

\* the comparison not strict: ctime >= mtime
get_best_date_ge(metadata) ==
    LET mtime == EpochSecs(metadata.mtime)
        ctime == EpochSecs(metadata.ctime)
    IN  IF ctime >= mtime
        THEN [value |-> ctime, kind |-> "Created"]
        ELSE [value |-> mtime, kind |-> "Modified"]

get_best_date(metadata) ==
    LET mtime == EpochSecs(metadata.mtime)
        ctime == EpochSecs(metadata.ctime)
    IN  IF ctime > mtime
        THEN [value |-> ctime, kind |-> "Created"]
        ELSE [value |-> mtime, kind |-> "Modified"]

(***************************************************************************)
(* The extension allowlist of rebuild_index.                               *)
(***************************************************************************)
allowed_extensions ==
    {
      <<"p", "d", "f">>,
      <<"d", "o", "c">>,
      <<"d", "o", "c", "x">>,
      <<"t", "x", "t">>,
      <<"r", "t", "f">>,
      <<"m", "d">>,
      <<"p", "a", "g", "e", "s">>,
      <<"o", "d", "t">>,
      <<"x", "l", "s">>,
      <<"x", "l", "s", "x">>,
      <<"c", "s", "v">>,
      <<"n", "u", "m", "b", "e", "r", "s">>,
      <<"p", "p", "t">>,
      <<"p", "p", "t", "x">>,
      <<"k", "e", "y">>,
      <<"j", "p", "g">>,
      <<"j", "p", "e", "g">>,
      <<"p", "n", "g">>,
      <<"g", "i", "f">>,
      <<"h", "e", "i", "c">>,
      <<"w", "e", "b", "p">>,
      <<"s", "v", "g">>,
      <<"p", "s", "d">>,
      <<"a", "i">>,
      <<"m", "p", "4">>,
      <<"m", "o", "v">>,
      <<"a", "v", "i">>,
      <<"m", "k", "v">>,
      <<"w", "e", "b", "m">>,
      <<"m", "p", "3">>,
      <<"w", "a", "v">>,
      <<"a", "a", "c">>,
      <<"f", "l", "a", "c">>,
      <<"m", "4", "a">>,
      <<"p", "y">>,
      <<"j", "s">>,
      <<"t", "s">>,
      <<"r", "s">>,
      <<"s", "w", "i", "f", "t">>,
      <<"j", "a", "v", "a">>,
      <<"g", "o">>,
      <<"h", "t", "m", "l">>,
      <<"c", "s", "s">>,
      <<"j", "s", "o", "n">>,
      <<"z", "i", "p">>,
      <<"t", "a", "r">>,
      <<"g", "z">>,
      <<"r", "a", "r">>,
      <<"7", "z">>,
      <<"d", "m", "g">>
    }

(***************************************************************************)
(* SearchResult and FileCache.                                             *)
(***************************************************************************)
SearchResult(name, path, size, folder, sc, dv, dk, fk) ==
    [file_name |-> name, file_path |-> path, file_size |-> size,
     is_folder |-> folder, score |-> sc, date_value |-> dv,
     date_kind |-> dk, file_kind |-> fk]

FileCache(lu, fs) == [last_updated |-> lu, files |-> fs]

\* FileCache::default()
FileCacheDefault == FileCache(0, <<>>)

(***************************************************************************)
(* The JSON text of the cache file, as a sequence of tokens.  A token is   *)
(* [k, n, s, cs]: its kind, and the number, the fixed string or the        *)
(* characters it carries.                                                  *)
(***************************************************************************)
Tok(kind) == [k |-> kind, n |-> 0, s |-> "", cs |-> <<>>]
KeyTok(name) == [k |-> "key", n |-> 0, s |-> name, cs |-> <<>>]
NumTok(i) == [k |-> "num", n |-> i, s |-> "", cs |-> <<>>]
StrTok(str, chars) == [k |-> "str", n |-> 0, s |-> str, cs |-> chars]
BoolTok(b) == Tok(IF b THEN "true" ELSE "false")

\* file_size written from the wrong field
SerializeResult_mixed(f) ==
    << Tok("{"),
       KeyTok("file_name"), StrTok("", f.file_name),
       KeyTok("file_path"), StrTok("", f.file_path),
       KeyTok("file_size"), NumTok(f.score),
       KeyTok("is_folder"), BoolTok(f.is_folder),
       KeyTok("score"), NumTok(f.score),
       KeyTok("date_value"), NumTok(f.date_value),
       KeyTok("date_kind"), StrTok(f.date_kind, <<>>),
       KeyTok("file_kind"), StrTok(f.file_kind.label, f.file_kind.ext),
       Tok("}") >>

\* the tokens of one SearchResult object, in the order of the struct's fields
SerializeResult(f) ==
    << Tok("{"),
       KeyTok("file_name"), StrTok("", f.file_name),
       KeyTok("file_path"), StrTok("", f.file_path),
       KeyTok("file_size"), NumTok(f.file_size),
       KeyTok("is_folder"), BoolTok(f.is_folder),
       KeyTok("score"), NumTok(f.score),
       KeyTok("date_value"), NumTok(f.date_value),
       KeyTok("date_kind"), StrTok(f.date_kind, <<>>),
       KeyTok("file_kind"), StrTok(f.file_kind.label, f.file_kind.ext),
       Tok("}") >>

ResultTokens == 18
CacheFrameTokens == 7

RECURSIVE SerializeResults(_)
SerializeResults(fs) ==
    IF fs = <<>>
    THEN <<>>
    ELSE SerializeResult(Head(fs)) \o SerializeResults(Tail(fs))

\* serde_json::to_writer(writer, cache)
Serialize(cache) ==
    << Tok("{"), KeyTok("last_updated"), NumTok(cache.last_updated),
       KeyTok("files"), Tok("[") >>
    \o SerializeResults(cache.files)
    \o << Tok("]"), Tok("}") >>

\* the tokens at base+1 .. base+18 are a SearchResult object
ResultWellFormed(toks, base) ==
    /\ toks[base + 1] = Tok("{")
    /\ toks[base + 2] = KeyTok("file_name")
    /\ toks[base + 3].k = "str"
    /\ toks[base + 4] = KeyTok("file_path")
    /\ toks[base + 5].k = "str"
    /\ toks[base + 6] = KeyTok("file_size")
    /\ toks[base + 7].k = "num" /\ toks[base + 7].n >= 0
    /\ toks[base + 8] = KeyTok("is_folder")
    /\ toks[base + 9].k \in {"true", "false"}
    /\ toks[base + 10] = KeyTok("score")
    /\ toks[base + 11].k = "num"
    /\ toks[base + 12] = KeyTok("date_value")
    /\ toks[base + 13].k = "num"
    /\ toks[base + 14] = KeyTok("date_kind")
    /\ toks[base + 15].k = "str"
    /\ toks[base + 16] = KeyTok("file_kind")
    /\ toks[base + 17].k = "str"
    /\ toks[base + 18] = Tok("}")

DeserializeResult(toks, base) ==
    SearchResult(toks[base + 3].cs, toks[base + 5].cs, toks[base + 7].n,
                 toks[base + 9].k = "true", toks[base + 11].n,
                 toks[base + 13].n, toks[base + 15].s,
                 [label |-> toks[base + 17].s, ext |-> toks[base + 17].cs])

\* the whole text is one FileCache object and nothing else
CacheWellFormed(toks) ==
    LET n == Len(toks) IN
    /\ n >= CacheFrameTokens
    /\ (n - CacheFrameTokens) % ResultTokens = 0
    /\ toks[1] = Tok("{")
    /\ toks[2] = KeyTok("last_updated")
    /\ toks[3].k = "num"
    /\ toks[4] = KeyTok("files")
    /\ toks[5] = Tok("[")
    /\ toks[n - 1] = Tok("]")
    /\ toks[n] = Tok("}")
    /\ \A i \in 1 .. ((n - CacheFrameTokens) \div ResultTokens) :
          ResultWellFormed(toks, 5 + ResultTokens * (i - 1))

\* serde_json::from_reader(reader): Ok(cache) or Err
Deserialize(toks) ==
    IF CacheWellFormed(toks)
    THEN Some(FileCache(
            toks[3].n,
            [i \in 1 .. ((Len(toks) - CacheFrameTokens) \div ResultTokens) |->
                DeserializeResult(toks, 5 + ResultTokens * (i - 1))]))
    ELSE None

(***************************************************************************)
(* The file system under $HOME.  A home directory is a sequence of         *)
(* entries; entry 1 is $HOME itself (parent 0), and every other entry      *)
(* names its parent directory.  Of an entry:                               *)
(*   ftype   "dir", "file" or "symlink" (entry.file_type())                *)
(*   ignored excluded by a .gitignore rule                                 *)
(*   err     the walker yields Err for it (e.g. permission denied)         *)
(*   meta_ok entry.metadata() succeeds                                     *)
(*   mtime, ctime  [ok, secs]: metadata.modified() / created()             *)
(***************************************************************************)
Time(secs) == [ok |-> TRUE, secs |-> secs]
NoTime == [ok |-> FALSE, secs |-> 0]

Entry(parent, name, ftype, mtime, ctime) ==
    [parent |-> parent, name |-> name, ftype |-> ftype, ignored |-> FALSE,
     err |-> FALSE, meta_ok |-> TRUE, mtime |-> mtime, ctime |-> ctime,
     size |-> IF ftype = "dir" THEN 0 ELSE Len(name)]

File(parent, name, mtime) == Entry(parent, name, "file", Time(mtime), Time(mtime))
Dir(parent, name, mtime) == Entry(parent, name, "dir", Time(mtime), Time(mtime))

DAY_SECS == 60 * 60 * 24
Old == T0 - 10 * DAY_SECS
Yesterday == T0 - DAY_SECS

\* env::var("HOME")
HomePath == <<"/", "h">>
HomeEntry == Dir(0, <<"h">>, Old)

Documents == <<"D", "o", "c", "u", "m", "e", "n", "t", "s">>
Downloads == <<"D", "o", "w", "n", "l", "o", "a", "d", "s">>
Desktop == <<"D", "e", "s", "k", "t", "o", "p">>

\* the folders rebuild_index scans, in the order it scans them
scan_folders == <<Documents, Downloads, Desktop>>

Digits == <<"0", "1", "2", "3", "4", "5", "6", "7", "8", "9">>
Digit(i) == Digits[(i % 10) + 1]

ReportPdf == <<"r", "e", "p", "o", "r", "t", ".", "p", "d", "f">>
NotesTxt == <<"n", "o", "t", "e", "s", ".", "t", "x", "t">>

\* no curated folder exists
EmptyHome == <<HomeEntry>>

\* curated folders exist and contain nothing
EmptyFolders == <<HomeEntry, Dir(1, Documents, Old), Dir(1, Desktop, Yesterday)>>

\* report.pdf modified a day ago, notes.txt ten days ago
SmallHome ==
    << HomeEntry,
       Dir(1, Documents, Old),
       File(2, <<"r", "e", "p", "o", "r", "t", ".", "p", "d", "f">>, Yesterday),
       File(2, <<"n", "o", "t", "e", "s", ".", "t", "x", "t">>, Old),
       Dir(1, Downloads, Old),
       File(5, <<"a", "i", "r", "p", "o", "r", "t", ".", "t", "x", "t">>, T0 - WEEK_SECS + 1) >>

\* the cases of the extension filter and of the metadata
EdgeHome ==
    << HomeEntry,
       Dir(1, Desktop, Old),
       \* an upper-case extension
       File(2, <<"R", "e", "p", "o", "r", "t", ".", "P", "D", "F">>, Yesterday),
       \* no extension, an extension outside the allowlist, an empty extension
       File(2, <<"M", "a", "k", "e", "f", "i", "l", "e">>, Yesterday),
       File(2, <<"t", "o", "o", "l", ".", "e", "x", "e">>, Yesterday),
       File(2, <<"n", "o", "t", "e", "s", ".">>, Yesterday),
       \* a directory whose name has an extension outside the allowlist
       Dir(2, <<"p", "h", "o", "t", "o", "s", ".", "a", "p", "p">>, T0 - WEEK_SECS),
       File(7, <<"p", "i", "c", ".", "p", "n", "g">>, T0),
       \* a symbolic link without an extension
       Entry(2, <<"l", "i", "n", "k">>, "symlink", Time(Old), Time(Old)),
       \* created after it was modified (a download); a space in the name
       Entry(2, <<"m", "y", " ", "c", "v", ".", "p", "d", "f">>, "file", Time(Old), Time(Yesterday)),
       \* no creation time; a modification time before the epoch
       Entry(2, <<"a", ".", "r", "t", "f">>, "file", Time(T0 + DAY_SECS), NoTime),
       Entry(2, <<"b", ".", "t", "x", "t">>, "file", Time(0 - 5), Time(0 - 3)),
       \* metadata cannot be read; the walker reports an error
       [File(2, <<"c", ".", "t", "x", "t">>, Yesterday) EXCEPT !.meta_ok = FALSE],
       [File(2, <<"d", ".", "t", "x", "t">>, Yesterday) EXCEPT !.err = TRUE],
       \* hidden, and ignored by .gitignore
       File(2, <<".", "p", "l", "a", "n", ".", "p", "d", "f">>, Yesterday),
       [File(2, <<"t", "a", "r", "g", "e", "t", ".", "p", "d", "f">>, Yesterday) EXCEPT !.ignored = TRUE] >>

\* a chain of DeepLevels directories d/d/d/... under Documents, with a file
\* r.txt in each: entry 2k+1 is the k-th directory, entry 2k+2 its file
DeepHome ==
    << HomeEntry, Dir(1, Documents, Old) >>
    \o [k \in 1 .. 2 * DeepLevels |->
          IF k % 2 = 1
          THEN Dir(IF k = 1 THEN 2 ELSE k, <<"d">>, Old)
          ELSE File(k + 1, <<"r", ".", "t", "x", "t">>, Yesterday + k)]

\* Documents holds BulkFiles files rNN.txt and arNN.txt, all but the first
\* two of them recent
BulkHome ==
    << HomeEntry, Dir(1, Documents, Old) >>
    \o [i \in 1 .. BulkFiles |->
          File(2, (IF i % 2 = 0 THEN <<"a">> ELSE <<>>)
                  \o <<"r", Digit(i \div 10), Digit(i), ".", "t", "x", "t">>,
               IF i <= 2 THEN Old ELSE Yesterday + (i % 3))]

\* more files than the sink of search_files takes, all matching "r": the
\* first SINK_CAP of them with the "r" second or third in the name, the
\* others with the "r" first
CrowdedName(i) ==
    (IF i > SINK_CAP THEN <<>> ELSE IF i % 2 = 0 THEN <<"a">> ELSE <<"a", "a">>)
    \o <<"r", Digit(i \div 1000), Digit(i \div 100), Digit(i \div 10), Digit(i)>>

CrowdedHome ==
    << HomeEntry >>
    \o [i \in 1 .. SINK_CAP + ExtraMatches |->
          File(1, CrowdedName(i), Yesterday)]

\* a folder small enough for its walk to be explored under every
\* interleaving of the workers: a file whose metadata cannot be read, a file
\* and a directory the extension filter rejects, and a file in that directory
MixedHome ==
    << HomeEntry,
       Dir(1, Documents, Old),
       [File(2, <<"c", ".", "t", "x", "t">>, Yesterday) EXCEPT !.meta_ok = FALSE],
       File(2, <<"t", "o", "o", "l", ".", "e", "x", "e">>, Yesterday),
       File(2, <<"a", ".", "t", "x", "t">>, Yesterday),
       Dir(2, <<"s", "u", "b", ".", "a", "p", "p">>, Old),
       File(6, <<"p", "i", "c", ".", "p", "n", "g">>, Yesterday) >>

HomeDirs ==
    <<EmptyHome, EmptyFolders, SmallHome, EdgeHome, DeepHome, BulkHome,
      MixedHome>>

(***************************************************************************)
(* Paths, depth and the entries a walk yields.                             *)
(***************************************************************************)
RECURSIVE PathOf(_, _)
PathOf(home, id) ==
    IF id = 1
    THEN HomePath
    ELSE PathOf(home, home[id].parent) \o <<"/">> \o home[id].name

RECURSIVE DepthBelow(_, _, _)
\* the depth of entry id below the walk's root
DepthBelow(home, root, id) ==
    IF id = root THEN 0 ELSE 1 + DepthBelow(home, root, home[id].parent)

\* .hidden(true): names starting with a dot are skipped
IsHidden(e) == e.name # <<>> /\ e.name[1] = "."

\* the children of a directory the walker pushes on its work queue, if the
\* directory itself is within max_depth
Children(home, root, id, max_depth) ==
    IF home[id].ftype # "dir" \/ home[id].err
       \/ DepthBelow(home, root, id) >= max_depth
    THEN {}
    ELSE { j \in DOMAIN home :
             /\ home[j].parent = id
             /\ ~IsHidden(home[j])
             /\ ~home[j].ignored }

\* the entry of a curated folder, 0 when the folder does not exist
FolderEntry(home, name) ==
    IF \E j \in DOMAIN home : home[j].parent = 1 /\ home[j].name = name
    THEN CHOOSE j \in DOMAIN home : home[j].parent = 1 /\ home[j].name = name
    ELSE 0

\* every entry below root the walk reaches
RECURSIVE Reach(_, _, _, _)
Reach(home, root, frontier, max_depth) ==
    IF frontier = {}
    THEN {}
    ELSE frontier \cup
         Reach(home, root,
               UNION { Children(home, root, id, max_depth) : id \in frontier },
               max_depth)

WalkSet(home, root, max_depth) == Reach(home, root, {root}, max_depth)

(***************************************************************************)
(* SkimMatcherV2::default().smart_case().fuzzy_match(choice, pattern):     *)
(* Some(score) when the characters of pattern occur in choice in order,    *)
(* compared case-insensitively unless pattern has an upper-case character. *)
(* The score rewards a match that starts early and runs of adjacent        *)
(* matched characters.                                                     *)
(***************************************************************************)
HasUpper(s) == \E i \in DOMAIN s : IsUpperCh(s[i])

\* the positions of the leftmost match of pat[p..] in cho[c..], <<>> if none
RECURSIVE MatchFrom(_, _, _, _)
MatchFrom(cho, pat, c, p) ==
    IF p > Len(pat) THEN <<>>
    ELSE IF c > Len(cho) THEN <<0>>
    ELSE IF cho[c] = pat[p]
         THEN <<c>> \o MatchFrom(cho, pat, c + 1, p + 1)
         ELSE MatchFrom(cho, pat, c + 1, p)

MatchScore(pos) ==
    16 * Len(pos)
    + (IF pos[1] = 1 THEN 8 ELSE 0)
    + 4 * Cardinality({ i \in 1 .. Len(pos) - 1 : pos[i + 1] = pos[i] + 1 })
    - pos[1]

fuzzy_match(choice, pattern) ==
    LET cho == IF HasUpper(pattern) THEN choice ELSE to_lowercase(choice)
        pos == MatchFrom(cho, pattern, 1, 1)
    IN  IF pattern = <<>> \/ \E i \in DOMAIN pos : pos[i] = 0
        THEN None
        ELSE [some |-> TRUE, v |-> MatchScore(pos)]

(***************************************************************************)
(* slice::sort_by with a descending comparison of a key: a stable sort,    *)
(* so entries of equal key keep their order.  Computed key by key, from    *)
(* the largest key down.                                                   *)
(***************************************************************************)
SetMax(S) == CHOOSE x \in S : \A y \in S : y <= x

RECURSIVE ConcatByScore(_, _)
ConcatByScore(s, keys) ==
    IF keys = {}
    THEN <<>>
    ELSE LET k == SetMax(keys)
             HasKey(x) == x.score = k
         IN  SelectSeq(s, HasKey) \o ConcatByScore(s, keys \ {k})

RECURSIVE ConcatByDate(_, _)
ConcatByDate(s, keys) ==
    IF keys = {}
    THEN <<>>
    ELSE LET k == SetMax(keys)
             HasKey(x) == x.date_value = k
         IN  SelectSeq(s, HasKey) \o ConcatByDate(s, keys \ {k})

Reverse(s) == [i \in 1 .. Len(s) |-> s[Len(s) + 1 - i]]

\* the comparison the wrong way round: a.score.cmp(&b.score)
sort_by_score_asc(s) ==
    Reverse(ConcatByScore(s, { s[i].score : i \in DOMAIN s }))

\* final_results.sort_by(|a, b| b.score.cmp(&a.score))
sort_by_score_desc(s) == ConcatByScore(s, { s[i].score : i \in DOMAIN s })

\* final_results.sort_by(|a, b| b.date_value.cmp(&a.date_value))
sort_by_date_desc(s) == ConcatByDate(s, { s[i].date_value : i \in DOMAIN s })

\* the tail kept in place of the head
truncate_tail(s, n) ==
    IF Len(s) > n THEN SubSeq(s, Len(s) - n + 1, Len(s)) ELSE s

\* Vec::truncate(n)
truncate(s, n) == IF Len(s) > n THEN SubSeq(s, 1, n) ELSE s

(***************************************************************************)
(* The state.                                                              *)
(*   home    the file system under $HOME                                   *)
(*   disk    the cache file: [exists, perm, data]; perm is FALSE when the  *)
(*           file can be neither opened for reading nor created            *)
(*   now     the system clock, in seconds                                  *)
(*   callers the threads of the host application that call the library    *)
(*   call    per caller, the operation it runs and that operation's locals *)
(*           (and, in `before`, the file as save_cache found it; in        *)
(*           `processed`, the positions in `paths` of the items a file     *)
(*           operation carried out on the file system)                     *)
(*   hist    what has been called since a rebuild_index last ran or the    *)
(*           file was last changed from outside: nothing that matters      *)
(*           (n = 0), load_cached_index (1), then get_recent_files or      *)
(*           search_files (2), then load_cached_index again (3); what the  *)
(*           last load_cached_index returned; and who wrote the file last  *)
(***************************************************************************)
VARIABLES home, disk, now, callers, call, hist

vars == <<home, disk, now, callers, call, hist>>

Callers == {"a", "b"}
Workers == 1 .. NumWorkers

Queries ==
    { <<>>, <<" ">>, <<" ", "\t">>, <<"r", "p", "t">>, <<"R">>, <<"r">> }

NoResult == SearchResult(<<>>, <<>>, 0, FALSE, 0, 0, "", FixedKind(""))
Idle == [busy |-> FALSE, id |-> 0, result |-> NoResult]
Holding(id, r) == [busy |-> TRUE, id |-> id, result |-> r]

NoFile == [exists |-> FALSE, perm |-> TRUE, data |-> <<>>]
FileOf(toks) == [exists |-> TRUE, perm |-> TRUE, data |-> toks]

NoCall ==
    [op |-> "none", pc |-> "idle", query |-> <<>>, folder |-> 0, root |-> 0,
     max_depth |-> 0, todo |-> {}, held |-> [w \in Workers |-> Idle],
     active |-> {}, quit |-> FALSE, sink |-> <<>>, final |-> <<>>,
     cache |-> FileCacheDefault, saved |-> "no", before |-> NoFile,
     paths |-> <<>>, dest |-> <<>>, processed |-> {},
     started |-> 0, ret |-> <<>>]

\* a snapshot that is on disk when the program starts: of files that are
\* gone since, and not in the order rebuild_index writes
StaleFile(name, date) ==
    SearchResult(name, HomePath \o <<"/">> \o Documents \o <<"/">> \o name,
                 Len(name), FALSE, date, date, "Modified",
                 FixedKind("Markdown"))

StaleCache ==
    FileCache(T0 - 20 * DAY_SECS,
              << StaleFile(<<"o", "l", "d", ".", "m", "d">>, Old),
                 StaleFile(<<"t", "o", "d", "o", ".", "m", "d">>,
                           Yesterday - DAY_SECS),
                 StaleFile(<<"l", "o", "g", ".", "m", "d">>, Yesterday) >>)

Garbage == << Tok("{"), KeyTok("last_updated") >>

NoHist == [n |-> 0, last |-> <<>>, writer |-> "none"]

\* a rebuild_index of caller w runs, or the file is changed from outside
\* (w = "other"): what the last load_cached_index returned is history
Dirtied(w) == [n |-> 0, last |-> <<>>, writer |-> w]

\* get_recent_files or search_files has run
OtherReaderRan == [hist EXCEPT !.n = IF @ = 1 THEN 2 ELSE @]

InitCommon ==
    /\ home \in { HomeDirs[i] : i \in DOMAIN HomeDirs }
    /\ disk \in { NoFile, FileOf(Serialize(StaleCache)) }
    /\ now = T0
    /\ call = [c \in Callers |-> NoCall]
    /\ hist = NoHist

Init == InitCommon /\ callers = {"a"}

(***************************************************************************)
(* load_cache and save_cache.                                              *)
(***************************************************************************)
\* a text that lacks only its closing brace is accepted
load_cache_lenient(d) ==
    IF d.exists /\ d.perm
    THEN LET r == Deserialize(d.data)
             q == Deserialize(d.data \o <<Tok("}")>>)
         IN  IF r.some THEN r.v ELSE IF q.some THEN q.v ELSE FileCacheDefault
    ELSE FileCacheDefault

\* load_cache(): the file is opened and read at one instant
load_cache(d) ==
    IF d.exists /\ d.perm
    THEN LET r == Deserialize(d.data) IN
         IF r.some THEN r.v ELSE FileCacheDefault
    ELSE FileCacheDefault

\* File::create(&path): Ok truncates (or creates) the file
CanCreate(d) == ~d.exists \/ d.perm
Created(d) == [exists |-> TRUE, perm |-> TRUE, data |-> <<>>]

\* write(2) of toks at offset 0 of the open file: what lies beyond stays
WriteAt0(d, toks) ==
    IF d.exists
    THEN [d EXCEPT !.data =
            toks \o SubSeq(d.data, Len(toks) + 1, Len(d.data))]
    ELSE d

Idling(c) == c \in callers /\ call[c].pc = "idle"

\* the call returns r; its locals are dropped, but for what the caller
\* passed and observes: the query, the sink and the cache it had built
Return(k, r) ==
    [NoCall EXCEPT !.op = k.op, !.query = k.query, !.started = k.started,
                   !.sink = k.sink, !.cache = k.cache, !.saved = k.saved,
                   !.before = k.before, !.ret = r]

Begin(op) == [NoCall EXCEPT !.op = op, !.started = now]

(***************************************************************************)
(* load_cached_index                                                       *)
(***************************************************************************)
load_cached_index(c) ==
    /\ Idling(c)
    /\ LET files == load_cache(disk).files IN
       /\ call' = [call EXCEPT ![c] =
                     Return(Begin("load_cached_index"), files)]
       /\ hist' = [hist EXCEPT !.n = IF @ = 0 THEN 1 ELSE IF @ = 2 THEN 3 ELSE @,
                                !.last = files]
    /\ UNCHANGED <<home, disk, now, callers>>

(***************************************************************************)
(* get_recent_files                                                        *)
(***************************************************************************)
\* the window one second too wide: f.date_value >= week_ago
recent_files_inclusive(cache, t) ==
    LET week_ago == t - WEEK_SECS
        IsRecent(f) == f.date_value >= week_ago
        recent == SelectSeq(cache.files, IsRecent)
    IN  truncate(sort_by_date_desc(recent), RESULT_CAP)

\* the window of a day in place of a week
recent_files_day(cache, t) ==
    LET day_ago == t - DAY_SECS
        IsRecent(f) == f.date_value > day_ago
        recent == SelectSeq(cache.files, IsRecent)
    IN  truncate(sort_by_date_desc(recent), RESULT_CAP)

recent_files(cache, t) ==
    LET week_ago == t - WEEK_SECS
        IsRecent(f) == f.date_value > week_ago
        recent == SelectSeq(cache.files, IsRecent)
    IN  truncate(sort_by_date_desc(recent), RESULT_CAP)

\* the recent view is written back to the cache file
get_recent_files_saving(c) ==
    /\ Idling(c)
    /\ LET recent == recent_files(load_cache(disk), now) IN
       /\ call' = [call EXCEPT ![c] =
                     Return(Begin("get_recent_files"), recent)]
       /\ disk' = IF CanCreate(disk)
                  THEN FileOf(Serialize(FileCache(now, recent)))
                  ELSE disk
    /\ hist' = OtherReaderRan
    /\ UNCHANGED <<home, now, callers>>

get_recent_files(c) ==
    /\ Idling(c)
    /\ call' = [call EXCEPT ![c] =
                  Return(Begin("get_recent_files"),
                         recent_files(load_cache(disk), now))]
    /\ hist' = OtherReaderRan
    /\ UNCHANGED <<home, disk, now, callers>>

(***************************************************************************)
(* The parallel walk (WalkBuilder ... build_parallel().run(visitor)).      *)
(* The work queue `todo` starts with the root; a worker takes an entry,    *)
(* runs the visitor on it and then queues the entry's children.  The       *)
(* visitor runs in two steps: up to results.lock() (Visit), and the        *)
(* critical section (Push).  After a visitor returned Quit no worker       *)
(* takes another entry.                                                    *)
(***************************************************************************)
ActiveWorkers(h, root, max_depth) ==
    IF Cardinality(WalkSet(h, root, max_depth)) <= MaxInterleaved
    THEN Workers
    ELSE {1}

\* the workers that run now: all of them once the sink of search_files is
\* within CapWindow entries of its cap
ActiveNow(k) ==
    IF k.op = "search_files" /\ Len(k.sink) + CapWindow >= SINK_CAP
    THEN Workers
    ELSE k.active

SetMin(S) == CHOOSE x \in S : \A y \in S : x <= y

\* the entries of the work queue a worker may take next
Takeable(k) ==
    IF k.active = Workers \/ k.todo = {} THEN k.todo ELSE {SetMin(k.todo)}

StartWalk(k, root, max_depth) ==
    [k EXCEPT !.pc = "walk", !.root = root, !.max_depth = max_depth,
              !.todo = {root}, !.quit = FALSE,
              !.active = ActiveWorkers(home, root, max_depth)]

\* the match is not tested: unwrap_or(0) in place of `if let Some(score)`
search_visit_unmatched(e, id, query) ==
    IF e.err
    THEN None
    ELSE LET m == fuzzy_match(e.name, query)
             is_folder == e.ftype = "dir"
             best == get_best_date(e)
         IN  Some(SearchResult(
                     e.name, PathOf(home, id),
                     IF e.meta_ok THEN e.size ELSE 0,
                     is_folder, IF m.some THEN m.v ELSE 0,
                     IF e.meta_ok THEN best.value ELSE 0,
                     IF e.meta_ok THEN best.kind ELSE "Unknown",
                     get_file_kind(e.name, is_folder)))

\* the visitor of search_files, up to the lock: Some(result) for a match
search_visit(e, id, query) ==
    IF e.err
    THEN None
    ELSE LET file_name == e.name
             m == fuzzy_match(file_name, query)
             is_folder == e.ftype = "dir"
             best == get_best_date(e)
         IN  IF ~m.some
             THEN None
             ELSE Some(SearchResult(
                         file_name, PathOf(home, id),
                         IF e.meta_ok THEN e.size ELSE 0,
                         is_folder, m.v,
                         IF e.meta_ok THEN best.value ELSE 0,
                         IF e.meta_ok THEN best.kind ELSE "Unknown",
                         get_file_kind(file_name, is_folder)))

\* the extension filter of rebuild_index
passes_filter(e) ==
    LET ext == extension(e.name) IN
    IF ext.some
    THEN to_lowercase(ext.v) \in allowed_extensions
    ELSE e.ftype # "file"

\* the visitor of rebuild_index, up to the lock
rebuild_visit(e, id) ==
    IF e.err \/ ~passes_filter(e) \/ ~e.meta_ok
    THEN None
    ELSE LET is_folder == e.ftype = "dir"
             best == get_best_date(e)
         IN  Some(SearchResult(
                    e.name, PathOf(home, id), e.size, is_folder, best.value,
                    best.value, best.kind, get_file_kind(e.name, is_folder)))

Visit(c, w) ==
    /\ c \in callers
    /\ call[c].pc = "walk"
    /\ w \in ActiveNow(call[c])
    /\ ~call[c].held[w].busy
    /\ ~call[c].quit
    /\ \E id \in Takeable(call[c]) :
         LET k == call[c]
             r == IF k.op = "search_files"
                  THEN search_visit(home[id], id, k.query)
                  ELSE rebuild_visit(home[id], id)
         IN  call' = [call EXCEPT ![c] =
                 IF r.some
                 THEN [k EXCEPT !.todo = @ \ {id},
                                !.held[w] = Holding(id, r.v)]
                 ELSE [k EXCEPT !.todo = (@ \ {id}) \cup
                                  Children(home, k.root, id, k.max_depth)]]
    /\ UNCHANGED <<home, disk, now, callers, hist>>

\* the cap tested one entry late: lock.len() <= 2000
Push_cap_inclusive(c, w) ==
    /\ c \in callers
    /\ call[c].pc = "walk"
    /\ call[c].held[w].busy
    /\ LET k == call[c]
           h == k.held[w]
           kids == Children(home, k.root, h.id, k.max_depth)
       IN  call' = [call EXCEPT ![c] =
             IF k.op = "search_files" /\ ~(Len(k.sink) <= SINK_CAP)
             THEN [k EXCEPT !.held[w] = Idle, !.quit = TRUE]
             ELSE [k EXCEPT !.held[w] = Idle,
                            !.sink = Append(@, h.result),
                            !.todo = @ \cup kids]]
    /\ UNCHANGED <<home, disk, now, callers, hist>>

\* the push without the lock: two visitors that are in the section at once
\* write the same slot of the vector, and one of the two entries is lost
Push_unlocked(c, w) ==
    /\ c \in callers
    /\ call[c].pc = "walk"
    /\ call[c].held[w].busy
    /\ LET k == call[c]
           h == k.held[w]
           kids == Children(home, k.root, h.id, k.max_depth)
           racing == { v \in Workers \ {w} : k.held[v].busy }
           lost == UNION { Children(home, k.root, k.held[v].id, k.max_depth)
                             : v \in racing }
       IN  call' = [call EXCEPT ![c] =
             IF k.op = "search_files" /\ ~(Len(k.sink) < SINK_CAP)
             THEN [k EXCEPT !.held[w] = Idle, !.quit = TRUE]
             ELSE [k EXCEPT !.held = [v \in Workers |->
                                        IF v = w \/ v \in racing
                                        THEN Idle ELSE @[v]],
                            !.sink = Append(@, h.result),
                            !.todo = @ \cup kids \cup lost]]
    /\ UNCHANGED <<home, disk, now, callers, hist>>

\* the critical section of the visitor, and its return to the walker
Push(c, w) ==
    /\ c \in callers
    /\ call[c].pc = "walk"
    /\ call[c].held[w].busy
    /\ LET k == call[c]
           h == k.held[w]
           kids == Children(home, k.root, h.id, k.max_depth)
       IN  call' = [call EXCEPT ![c] =
             IF k.op = "search_files" /\ ~(Len(k.sink) < SINK_CAP)
             THEN [k EXCEPT !.held[w] = Idle, !.quit = TRUE]
             ELSE [k EXCEPT !.held[w] = Idle,
                            !.sink = Append(@, h.result),
                            !.todo = @ \cup kids]]
    /\ UNCHANGED <<home, disk, now, callers, hist>>

WalkOver(k) ==
    /\ k.pc = "walk"
    /\ \A w \in Workers : ~k.held[w].busy
    /\ k.quit \/ k.todo = {}

(***************************************************************************)
(* search_files                                                            *)
(***************************************************************************)
search_files(c) ==
    /\ Idling(c)
    /\ \E query \in Queries :
         call' = [call EXCEPT ![c] =
            IF trim(query) = <<>>
            THEN Return([Begin("search_files") EXCEPT !.query = query], <<>>)
            ELSE StartWalk([Begin("search_files") EXCEPT !.query = query],
                           1, SEARCH_MAX_DEPTH)]
    /\ UNCHANGED <<home, disk, now, callers, hist>>

search_finish(c) ==
    /\ c \in callers
    /\ call[c].op = "search_files"
    /\ WalkOver(call[c])
    /\ LET final_results == sort_by_score_desc(call[c].sink) IN
       call' = [call EXCEPT ![c] =
                  Return(@, truncate(final_results, RESULT_CAP))]
    /\ hist' = OtherReaderRan
    /\ UNCHANGED <<home, disk, now, callers>>

(***************************************************************************)
(* rebuild_index                                                           *)
(***************************************************************************)
rebuild_index(c) ==
    /\ Idling(c)
    /\ call' = [call EXCEPT ![c] =
         [Begin("rebuild_index") EXCEPT !.pc = "folder", !.folder = 1]]
    /\ hist' = Dirtied(hist.writer)
    /\ UNCHANGED <<home, disk, now, callers>>

\* `break` in place of `continue` for a folder that does not exist
rebuild_folder_break(c) ==
    /\ c \in callers
    /\ call[c].pc = "folder"
    /\ call[c].folder <= Len(scan_folders)
    /\ LET k == call[c]
           root == FolderEntry(home, scan_folders[k.folder])
       IN  call' = [call EXCEPT ![c] =
             IF root = 0
             THEN [k EXCEPT !.folder = Len(scan_folders) + 1]
             ELSE StartWalk(k, root, REBUILD_MAX_DEPTH)]
    /\ UNCHANGED <<home, disk, now, callers, hist>>

\* one turn of `for folder in scan_folders`, up to the start of its walk
rebuild_folder(c) ==
    /\ c \in callers
    /\ call[c].pc = "folder"
    /\ call[c].folder <= Len(scan_folders)
    /\ LET k == call[c]
           root == FolderEntry(home, scan_folders[k.folder])
       IN  call' = [call EXCEPT ![c] =
             IF root = 0
             THEN [k EXCEPT !.folder = @ + 1]
             ELSE StartWalk(k, root, REBUILD_MAX_DEPTH)]
    /\ UNCHANGED <<home, disk, now, callers, hist>>

\* walker.run returns
rebuild_walked(c) ==
    /\ c \in callers
    /\ call[c].op = "rebuild_index"
    /\ WalkOver(call[c])
    /\ call' = [call EXCEPT ![c] =
         [@ EXCEPT !.pc = "folder", !.folder = @ + 1]]
    /\ UNCHANGED <<home, disk, now, callers, hist>>

\* the result cut to the cap of the other operations before it is saved
rebuild_sort_truncating(c) ==
    /\ c \in callers
    /\ call[c].pc = "folder"
    /\ call[c].folder > Len(scan_folders)
    /\ LET final_results ==
             truncate(sort_by_date_desc(call[c].sink), RESULT_CAP) IN
       call' = [call EXCEPT ![c] =
         [@ EXCEPT !.pc = "save", !.final = final_results,
                   !.cache = FileCache(now, final_results)]]
    /\ UNCHANGED <<home, disk, now, callers, hist>>

\* the sort, the clock and the FileCache to save
rebuild_sort(c) ==
    /\ c \in callers
    /\ call[c].pc = "folder"
    /\ call[c].folder > Len(scan_folders)
    /\ LET final_results == sort_by_date_desc(call[c].sink) IN
       call' = [call EXCEPT ![c] =
         [@ EXCEPT !.pc = "save", !.final = final_results,
                   !.cache = FileCache(now, final_results)]]
    /\ UNCHANGED <<home, disk, now, callers, hist>>

\* the failure of File::create is passed on, and the result is lost with it
save_create_propagating(c) ==
    /\ c \in callers
    /\ call[c].pc = "save"
    /\ \/ /\ CanCreate(disk)
          /\ disk' = Created(disk)
          /\ call' = [call EXCEPT ![c] =
                        [@ EXCEPT !.pc = "write", !.before = disk]]
       \/ /\ TRUE
          /\ disk' = disk
          /\ call' = [call EXCEPT ![c] =
                        Return([@ EXCEPT !.saved = "failed",
                                         !.before = disk], <<>>)]
    /\ hist' = Dirtied(IF disk' = disk THEN hist.writer ELSE c)
    /\ UNCHANGED <<home, now, callers>>

\* save_cache: File::create; on Err (the file is not accessible, or the
\* storage fails) nothing is written
save_create(c) ==
    /\ c \in callers
    /\ call[c].pc = "save"
    /\ \/ /\ CanCreate(disk)
          /\ disk' = Created(disk)
          /\ call' = [call EXCEPT ![c] =
                        [@ EXCEPT !.pc = "write", !.before = disk]]
       \/ /\ TRUE
          /\ disk' = disk
          /\ call' = [call EXCEPT ![c] =
                        Return([@ EXCEPT !.saved = "failed",
                                         !.before = disk], @.final)]
    /\ hist' = Dirtied(IF disk' = disk THEN hist.writer ELSE c)
    /\ UNCHANGED <<home, now, callers>>

\* save_cache: serde_json::to_writer, whose result is dropped; a failing
\* write leaves the tokens written before it.  Then rebuild_index returns.
save_write(c) ==
    /\ c \in callers
    /\ call[c].pc = "write"
    /\ LET toks == Serialize(call[c].cache) IN
       \/ /\ disk' = WriteAt0(disk, toks)
          /\ call' = [call EXCEPT ![c] =
                        Return([@ EXCEPT !.saved = "yes"], @.final)]
       \/ /\ \E n \in {0, Len(toks) - 1} :
                disk' = WriteAt0(disk, SubSeq(toks, 1, n))
          /\ call' = [call EXCEPT ![c] =
                        Return([@ EXCEPT !.saved = "failed"], @.final)]
    /\ hist' = Dirtied(c)
    /\ UNCHANGED <<home, now, callers>>

(***************************************************************************)
(* The environment: the clock, and other programs changing the file.       *)
(***************************************************************************)
\* (explored where a caller is about to read the clock)
Tick ==
    /\ \E c \in callers : call[c].pc \in {"idle", "folder"}
    /\ now < T0 + MaxTicks
    /\ now' = now + 1
    /\ UNCHANGED <<home, disk, callers, call, hist>>

\* the file is removed, made inaccessible, or overwritten with other text
\* (explored between the calls of the library)
ExternalMutation ==
    /\ \A c \in callers : call[c].pc = "idle"
    /\ disk' \in ({ NoFile, FileOf(Garbage), [disk EXCEPT !.perm = FALSE] }
                  \ {disk})
    /\ hist' = Dirtied("other")
    /\ UNCHANGED <<home, now, callers, call>>

Next ==
    \/ \E c \in Callers :
          \/ load_cached_index(c)
          \/ get_recent_files(c)
          \/ search_files(c)
          \/ search_finish(c)
          \/ rebuild_index(c)
          \/ rebuild_folder(c)
          \/ rebuild_walked(c)
          \/ rebuild_sort(c)
          \/ save_create(c)
          \/ save_write(c)
          \/ \E w \in Workers : Visit(c, w) \/ Push(c, w)
    \/ Tick
    \/ ExternalMutation

Spec == Init /\ [][Next]_vars

(***************************************************************************)
(* Two threads of the host application call the operations on the cache    *)
(* at the same time, while a file appears in Documents.                    *)
(***************************************************************************)
NewTxt == <<"n", "e", "w", ".", "t", "x", "t">>

\* another program creates the file new.txt in Documents
FileCreated ==
    /\ FolderEntry(home, Documents) # 0
    /\ \A id \in DOMAIN home : home[id].name # NewTxt
    /\ home' = Append(home, File(FolderEntry(home, Documents), NewTxt, now))
    /\ UNCHANGED <<disk, now, callers, call, hist>>

ConcInit ==
    /\ home = EmptyFolders
    /\ disk = FileOf(Serialize(StaleCache))
    /\ now = T0
    /\ callers = Callers
    /\ call = [c \in Callers |-> NoCall]
    /\ hist = NoHist

ConcNext ==
    \/ \E c \in Callers :
          \/ load_cached_index(c)
          \/ get_recent_files(c)
          \/ rebuild_index(c)
          \/ rebuild_folder(c)
          \/ rebuild_walked(c)
          \/ rebuild_sort(c)
          \/ save_create(c)
          \/ save_write(c)
          \/ \E w \in Workers : Visit(c, w) \/ Push(c, w)
    \/ FileCreated

ConcSpec == ConcInit /\ [][ConcNext]_vars

(***************************************************************************)
(* search_files alone, also in a home directory with more matches than     *)
(* the sink takes.                                                         *)
(***************************************************************************)
SearchInit ==
    /\ home \in { HomeDirs[i] : i \in DOMAIN HomeDirs } \cup { CrowdedHome }
    /\ disk = NoFile
    /\ now = T0
    /\ callers = {"a"}
    /\ call = [c \in Callers |-> NoCall]
    /\ hist = NoHist

SearchNext ==
    \E c \in Callers :
       \/ search_files(c)
       \/ search_finish(c)
       \/ \E w \in Workers : Visit(c, w) \/ Push(c, w)

SearchSpec == SearchInit /\ [][SearchNext]_vars

(***************************************************************************)
(* The file operations: move_files, copy_files, trash_files and            *)
(* compress_files.  They act on the file system `home`; an entry that is   *)
(* removed or replaced stays in the sequence, detached (parent 0).  A      *)
(* system call gives [ok, fs]: whether it succeeded, and the file system   *)
(* after it.                                                               *)
(***************************************************************************)
LastSlash(p) ==
    IF \E i \in DOMAIN p : p[i] = "/"
    THEN CHOOSE i \in DOMAIN p :
            /\ p[i] = "/"
            /\ \A j \in DOMAIN p : p[j] = "/" => j <= i
    ELSE 0

\* Path::file_name: the final component; None for the root and for ".."
file_name(p) ==
    LET n == SubSeq(p, LastSlash(p) + 1, Len(p)) IN
    IF n = <<>> \/ n = <<".", ".">> THEN None ELSE Some(n)

\* Path::parent
parent_path(p) == SubSeq(p, 1, LastSlash(p) - 1)

\* Path::join
join(dir, name) == dir \o <<"/">> \o name

\* Path::file_stem, and the extension with its dot
file_stem(name) ==
    IF LastDot(name) <= 1 THEN name ELSE SubSeq(name, 1, LastDot(name) - 1)

dot_extension(name) ==
    IF extension(name).some THEN <<".">> \o extension(name).v ELSE <<>>

RECURSIVE Decimal(_)
Decimal(n) ==
    IF n < 10 THEN <<Digit(n)>> ELSE Decimal(n \div 10) \o <<Digit(n)>>

RECURSIVE Attached(_, _)
Attached(h, id) ==
    id = 1 \/ (h[id].parent # 0 /\ Attached(h, h[id].parent))

\* the entry at a path, 0 when there is none
Resolve(h, p) ==
    IF \E id \in DOMAIN h : Attached(h, id) /\ PathOf(h, id) = p
    THEN CHOOSE id \in DOMAIN h : Attached(h, id) /\ PathOf(h, id) = p
    ELSE 0

IsDir(h, id) == id # 0 /\ h[id].ftype = "dir"
IsFile(h, id) == id # 0 /\ h[id].ftype = "file"
HasChildren(h, id) == \E j \in DOMAIN h : h[j].parent = id

RECURSIVE Below(_, _, _)
\* entry id is entry anc or lies below it
Below(h, anc, id) ==
    id = anc \/ (id # 1 /\ h[id].parent # 0 /\ Below(h, anc, h[id].parent))

\* the directory usb of the home directory is the mount point of another
\* device
Usb == <<"u", "s", "b">>
OnOtherDevice(h, id) ==
    \E m \in DOMAIN h :
        h[m].parent = 1 /\ h[m].name = Usb /\ Below(h, m, id)

Failed(h) == [ok |-> FALSE, fs |-> h]
Done(h) == [ok |-> TRUE, fs |-> h]

\* fs::rename(from, to)
fs_rename(h, from, to) ==
    LET s == Resolve(h, from)
        d == Resolve(h, to)
        dir == Resolve(h, parent_path(to))
        name == file_name(to)
    IN  IF s = 0 \/ s = 1 \/ ~IsDir(h, dir) \/ ~name.some THEN Failed(h)
        ELSE IF OnOtherDevice(h, s) # OnOtherDevice(h, dir) THEN Failed(h)
        ELSE IF Below(h, s, dir) THEN Failed(h)
        ELSE IF d = s THEN Done(h)
        ELSE IF d = 0
             THEN Done([h EXCEPT ![s].parent = dir, ![s].name = name.v])
        ELSE IF IsDir(h, s) # IsDir(h, d) \/ HasChildren(h, d) THEN Failed(h)
        ELSE Done([h EXCEPT ![d].parent = 0,
                            ![s].parent = dir, ![s].name = name.v])

\* fs::copy(from, to), at time t: from must be a regular file that can be
\* read; an existing file at to is overwritten
fs_copy(h, from, to, t) ==
    LET s == Resolve(h, from)
        d == Resolve(h, to)
        dir == Resolve(h, parent_path(to))
        name == file_name(to)
    IN  IF ~IsFile(h, s) \/ ~IsDir(h, dir) \/ ~name.some \/ IsDir(h, d)
        THEN Failed(h)
        ELSE IF h[s].err THEN Failed(h)
        ELSE IF d # 0
             THEN Done([h EXCEPT ![d].size = h[s].size, ![d].mtime = Time(t)])
             ELSE Done(Append(h, [h[s] EXCEPT !.parent = dir,
                                              !.name = name.v,
                                              !.mtime = Time(t),
                                              !.ctime = Time(t)]))

\* fs::remove_file(path), its result dropped
fs_remove_file(h, p) ==
    LET s == Resolve(h, p) IN
    IF IsFile(h, s) THEN [h EXCEPT ![s].parent = 0] ELSE h

RECURSIVE create_dir_all(_, _, _)
\* fs::create_dir_all(path), at time t
create_dir_all(h, p, t) ==
    IF Resolve(h, p) # 0
    THEN [ok |-> IsDir(h, Resolve(h, p)), fs |-> h]
    ELSE IF LastSlash(p) <= 1 \/ ~file_name(p).some
         THEN Failed(h)
         ELSE LET up == create_dir_all(h, parent_path(p), t) IN
              IF ~up.ok
              THEN Failed(h)
              ELSE Done(Append(up.fs,
                               Dir(Resolve(up.fs, parent_path(p)),
                                   file_name(p).v, t)))

\* fs::File::create(path), at time t
fs_create(h, p, t) ==
    LET d == Resolve(h, p)
        dir == Resolve(h, parent_path(p))
    IN  IF ~IsDir(h, dir) \/ ~file_name(p).some \/ IsDir(h, d)
        THEN Failed(h)
        ELSE IF d # 0
             THEN Done([h EXCEPT ![d].size = 0, ![d].mtime = Time(t)])
             ELSE Done(Append(h, [File(dir, file_name(p).v, t)
                                    EXCEPT !.size = 0]))

\* FileOpResult; the message is its format string with its arguments
FileOpResult(success, fmt, args, affected_count) ==
    [success |-> success, message |-> [fmt |-> fmt, args |-> args],
     affected_count |-> affected_count]

\* the locals of a loop over the paths: the file system, the counter, the
\* errors, the names in the archive, and the positions of the items that
\* were carried out
LoopStart(h) ==
    [fs |-> h, count |-> 0, errors |-> <<>>, zip |-> <<>>, processed |-> {}]

Counted(st, h, i) ==
    [st EXCEPT !.fs = h, !.count = @ + 1, !.processed = @ \cup {i}]

\* one turn of the loop of move_files
move_item(st, src, i, dest_path, t) ==
    LET name == file_name(src) IN
    IF ~name.some
    THEN st
    ELSE LET dest_file == join(dest_path, name.v)
             renamed == fs_rename(st.fs, src, dest_file)
             copied == fs_copy(st.fs, src, dest_file, t)
         IN  IF renamed.ok THEN Counted(st, renamed.fs, i)
             ELSE IF ~copied.ok
                  THEN [st EXCEPT !.errors = Append(@, src)]
                  ELSE Counted(st, fs_remove_file(copied.fs, src), i)

\* one turn of the loop of copy_files
copy_item(st, src, i, dest_path, t) ==
    LET name == file_name(src) IN
    IF ~name.some
    THEN st
    ELSE LET copied == fs_copy(st.fs, src, join(dest_path, name.v), t) IN
         IF copied.ok
         THEN Counted(st, copied.fs, i)
         ELSE [st EXCEPT !.errors = Append(@, src)]

RECURSIVE unique_dest(_, _, _, _, _)
\* the `while dest_file.exists()` loop of trash_files
unique_dest(h, trash_path, name, dest_file, counter) ==
    IF Resolve(h, dest_file) = 0
    THEN dest_file
    ELSE unique_dest(h, trash_path, name,
                     join(trash_path,
                          file_stem(name) \o <<" ">> \o Decimal(counter)
                              \o dot_extension(name)),
                     counter + 1)

DotTrash == <<".", "T", "r", "a", "s", "h">>

\* one turn of the loop of trash_files
trash_item(st, src, i) ==
    LET name == file_name(src)
        trash_path == join(HomePath, DotTrash)
    IN  IF ~name.some
        THEN st
        ELSE LET dest_file == unique_dest(st.fs, trash_path, name.v,
                                          join(trash_path, name.v), 1)
                 renamed == fs_rename(st.fs, src, dest_file)
             IN  IF renamed.ok
                 THEN Counted(st, renamed.fs, i)
                 ELSE [st EXCEPT !.errors = Append(@, src)]

\* one turn of the loop of compress_files; dup_ok: whether the archive
\* writer takes a second entry of a name it already has
compress_item(st, src, i, dup_ok) ==
    LET name == file_name(src)
        s == Resolve(st.fs, src)
    IN  IF ~name.some \/ ~IsFile(st.fs, s) THEN st
        ELSE IF st.fs[s].err THEN st
        ELSE IF ~dup_ok /\ \E j \in DOMAIN st.zip : st.zip[j] = name.v THEN st
        ELSE [Counted(st, st.fs, i) EXCEPT !.zip = Append(@, name.v)]

RECURSIVE file_loop(_, _, _, _, _, _, _)
\* `for src in &paths` of operation op, from position i on
file_loop(op, st, paths, i, dest_path, t, dup_ok) ==
    IF i > Len(paths)
    THEN st
    ELSE file_loop(op,
                   CASE op = "move_files" ->
                          move_item(st, paths[i], i, dest_path, t)
                     [] op = "copy_files" ->
                          copy_item(st, paths[i], i, dest_path, t)
                     [] op = "trash_files" -> trash_item(st, paths[i], i)
                     [] op = "compress_files" ->
                          compress_item(st, paths[i], i, dup_ok),
                   paths, i + 1, dest_path, t, dup_ok)

\* what the caller gave and got, and what was done
FileOpReturn(op, paths, dest, processed, result) ==
    [NoCall EXCEPT !.op = op, !.paths = paths, !.dest = dest,
                   !.processed = processed, !.started = now, !.ret = result]

\* the inputs explored
ReportPath == join(join(HomePath, Documents), ReportPdf)
NotesPath == join(join(HomePath, Documents), NotesTxt)
LockedTxt == <<"c", ".", "t", "x", "t">>
GoneTxt == <<"g", "o", "n", "e", ".", "t", "x", "t">>
AZip == <<"a", ".", "z", "i", "p">>

SourcePaths ==
    { ReportPath, NotesPath,
      join(join(HomePath, Documents), LockedTxt),
      join(join(HomePath, Documents), GoneTxt),
      join(HomePath, Documents),
      <<"/">> }

PathLists == UNION { [1 .. n -> SourcePaths] : n \in 0 .. MaxPaths }

Destinations ==
    { join(HomePath, Desktop),
      join(join(HomePath, <<"n", "e", "w">>), <<"s", "u", "b">>),
      join(NotesPath, <<"x">>),
      join(HomePath, Usb) }

ArchivePaths ==
    { join(join(HomePath, Desktop), AZip),
      join(join(HomePath, <<"g", "o", "n", "e">>), AZip) }

\* Documents with two files and one that cannot be read, a trash that
\* already holds a report.pdf, and a mounted device
OpsHome ==
    << HomeEntry,
       Dir(1, Documents, Old),
       File(2, ReportPdf, Yesterday),
       File(2, NotesTxt, Old),
       [File(2, LockedTxt, Yesterday) EXCEPT !.err = TRUE],
       Dir(1, Desktop, Old),
       Dir(1, DotTrash, Old),
       File(7, ReportPdf, Old),
       Dir(1, Usb, Old) >>

\* the caller's first call
FirstCall(c) == Idling(c) /\ call[c].op = "none"

move_files(c) ==
    /\ FirstCall(c)
    /\ \E source_paths \in PathLists, destination \in Destinations :
         LET made == IF Resolve(home, destination) # 0
                     THEN Done(home)
                     ELSE create_dir_all(home, destination, now)
             st == file_loop("move_files", LoopStart(made.fs), source_paths,
                             1, destination, now, TRUE)
         IN  IF ~made.ok
             THEN /\ home' = home
                  /\ call' = [call EXCEPT ![c] =
                       FileOpReturn("move_files", source_paths, destination,
                         {}, FileOpResult(FALSE,
                               "Failed to create destination: {}", <<>>, 0))]
             ELSE /\ home' = st.fs
                  /\ call' = [call EXCEPT ![c] =
                       FileOpReturn("move_files", source_paths, destination,
                         st.processed,
                         IF st.errors = <<>>
                         THEN FileOpResult(TRUE, "Moved {} files",
                                           <<st.count>>, st.count)
                         ELSE FileOpResult(FALSE,
                                "Moved {} files, {} errors: {}",
                                <<st.count, Len(st.errors), st.errors>>,
                                st.count))]
    /\ UNCHANGED <<disk, now, callers, hist>>

copy_files(c) ==
    /\ FirstCall(c)
    /\ \E source_paths \in PathLists, destination \in Destinations :
         LET made == IF Resolve(home, destination) # 0
                     THEN Done(home)
                     ELSE create_dir_all(home, destination, now)
             st == file_loop("copy_files", LoopStart(made.fs), source_paths,
                             1, destination, now, TRUE)
         IN  IF ~made.ok
             THEN /\ home' = home
                  /\ call' = [call EXCEPT ![c] =
                       FileOpReturn("copy_files", source_paths, destination,
                         {}, FileOpResult(FALSE,
                               "Failed to create destination: {}", <<>>, 0))]
             ELSE /\ home' = st.fs
                  /\ call' = [call EXCEPT ![c] =
                       FileOpReturn("copy_files", source_paths, destination,
                         st.processed,
                         IF st.errors = <<>>
                         THEN FileOpResult(TRUE, "Copied {} files",
                                           <<st.count>>, st.count)
                         ELSE FileOpResult(FALSE, "Copied {} files, {} errors",
                                           <<st.count, Len(st.errors)>>,
                                           st.count))]
    /\ UNCHANGED <<disk, now, callers, hist>>

trash_files(c) ==
    /\ FirstCall(c)
    /\ \E paths \in PathLists :
         LET st == file_loop("trash_files", LoopStart(home), paths, 1,
                             <<>>, now, TRUE)
         IN  /\ home' = st.fs
             /\ call' = [call EXCEPT ![c] =
                  FileOpReturn("trash_files", paths, <<>>, st.processed,
                    IF st.errors = <<>>
                    THEN FileOpResult(TRUE, "Moved {} items to Trash",
                                      <<st.count>>, st.count)
                    ELSE FileOpResult(FALSE, "Trashed {} items, {} errors",
                                      <<st.count, Len(st.errors)>>,
                                      st.count))]
    /\ UNCHANGED <<disk, now, callers, hist>>

\* finish_ok: whether zip.finish() succeeds
compress_files(c) ==
    /\ FirstCall(c)
    /\ \E paths \in PathLists, archive_path \in ArchivePaths,
          dup_ok \in BOOLEAN, finish_ok \in BOOLEAN :
         LET file == fs_create(home, archive_path, now)
             st == file_loop("compress_files", LoopStart(file.fs), paths, 1,
                             archive_path, now, dup_ok)
         IN  IF ~file.ok
             THEN /\ home' = home
                  /\ call' = [call EXCEPT ![c] =
                       FileOpReturn("compress_files", paths, archive_path,
                         {}, FileOpResult(FALSE,
                               "Failed to create archive: {}", <<>>, 0))]
             ELSE /\ home' = st.fs
                  /\ call' = [call EXCEPT ![c] =
                       IF ~finish_ok
                       THEN FileOpReturn("compress_files", paths,
                              archive_path, {},
                              FileOpResult(FALSE,
                                "Failed to finalize archive", <<>>, 0))
                       ELSE FileOpReturn("compress_files", paths,
                              archive_path, st.processed,
                              FileOpResult(TRUE, "Compressed {} files",
                                           <<st.count>>, st.count))]
    /\ UNCHANGED <<disk, now, callers, hist>>

FileOpsInit ==
    /\ home \in { OpsHome, SmallHome }
    /\ disk = NoFile
    /\ now = T0
    /\ callers = {"a"}
    /\ call = [c \in Callers |-> NoCall]
    /\ hist = NoHist

FileOpsNext ==
    \E c \in Callers :
       \/ move_files(c)
       \/ copy_files(c)
       \/ trash_files(c)
       \/ compress_files(c)

FileOpsSpec == FileOpsInit /\ [][FileOpsNext]_vars

(***************************************************************************)
(* What is claimed of the program.                                         *)
(***************************************************************************)
\* caller c is back from a call of op and has not called again
Returned(c, op) ==
    c \in callers /\ call[c].pc = "idle" /\ call[c].op = op

ScoresNonIncreasing(s) ==
    \A i \in 1 .. Len(s) - 1 : s[i].score >= s[i + 1].score

DatesNonIncreasing(s) ==
    \A i \in 1 .. Len(s) - 1 : s[i].date_value >= s[i + 1].date_value

OnlyWhitespace(q) == \A i \in DOMAIN q : q[i] \in WhiteChars

\* C1: search_files returns the empty sequence for every query that is
\* empty or has only whitespace characters.
C1_BlankQueryEmpty ==
    \A c \in Callers :
        Returned(c, "search_files") /\ OnlyWhitespace(call[c].query)
            => call[c].ret = <<>>

\* a whitespace-only query was searched, in a home directory where a file
\* name contains a space
C1_Witness ==
    /\ Returned("a", "search_files")
    /\ call["a"].query = <<" ">>
    /\ call["a"].ret = <<>>
    /\ \E id \in DOMAIN home : \E i \in DOMAIN home[id].name :
          home[id].name[i] = " "

\* C2: under every interleaving of the workers, what search_files returns
\* is ordered by score non-increasing, has at most 50 entries and is not
\* longer than the sink was at the end of the walk.
C2_SearchSortedCapped ==
    \A c \in Callers :
        Returned(c, "search_files")
            => /\ ScoresNonIncreasing(call[c].ret)
               /\ Len(call[c].ret) <= 50
               /\ Len(call[c].ret) <= Len(call[c].sink)

\* the sink held more than 50 matches, not in the order of their scores
C2_Witness ==
    /\ Returned("a", "search_files")
    /\ Len(call["a"].sink) > 50
    /\ Len(call["a"].ret) = 50
    /\ call["a"].ret[1].score > call["a"].ret[50].score
    /\ \E i \in 1 .. Len(call["a"].sink) - 1 :
          call["a"].sink[i].score < call["a"].sink[i + 1].score

\* C3: every entry search_files(q) returns is an entry the walk visits for
\* whose base name the matcher returned a score, and carries that score; an
\* entry without a score is not returned.
C3_ReturnedEntriesMatch ==
    \A c \in Callers :
        Returned(c, "search_files")
            => \A i \in DOMAIN call[c].ret :
                 \E id \in WalkSet(home, 1, SEARCH_MAX_DEPTH) :
                    /\ ~home[id].err
                    /\ call[c].ret[i].file_path = PathOf(home, id)
                    /\ call[c].ret[i].file_name = home[id].name
                    /\ fuzzy_match(home[id].name, call[c].query).some
                    /\ call[c].ret[i].score =
                          fuzzy_match(home[id].name, call[c].query).v

\* a search returned some of the visited entries and left out one that does
\* not match
C3_Witness ==
    /\ Returned("a", "search_files")
    /\ Len(call["a"].ret) >= 2
    /\ \E id \in WalkSet(home, 1, SEARCH_MAX_DEPTH) :
          /\ ~home[id].err
          /\ ~fuzzy_match(home[id].name, call["a"].query).some
          /\ \A i \in DOMAIN call["a"].ret :
                call["a"].ret[i].file_path # PathOf(home, id)

C5_SaveLoadRoundTrip ==
    \A c \in Callers :
        Returned(c, "rebuild_index") /\ call[c].saved = "yes"
          /\ hist.writer = c
            => /\ load_cache(disk).last_updated = call[c].cache.last_updated
               /\ load_cache(disk).files = call[c].cache.files

\* a cache of folders and files, of both date kinds and of a kind made
\* from the extension, was saved
C5_Witness ==
    /\ Returned("a", "rebuild_index")
    /\ call["a"].saved = "yes"
    /\ hist.writer = "a"
    /\ LET fs == call["a"].cache.files IN
       /\ \E i \in DOMAIN fs : fs[i].is_folder
       /\ \E i \in DOMAIN fs : fs[i].date_kind = "Created"
       /\ \E i \in DOMAIN fs : fs[i].file_kind.ext # <<>>
       /\ \E i \in DOMAIN fs : fs[i].file_size # fs[i].score

\* the operations that only read the cache
ReaderOps == {"load_cached_index", "get_recent_files", "search_files"}

\* this step is a step of a call of caller c to one of ops
StepOf(c, ops) == call'[c] # call[c] /\ call'[c].op \in ops

\* C6: a load_cached_index returns what the load_cached_index before it
\* returned when no rebuild_index ran and nobody else changed the file in
\* between, whatever reader operations ran in between; no step of
\* load_cached_index, get_recent_files or search_files changes the file.
C6_LoadsAgreeReadersKeepFile ==
    [][ /\ hist.n > 0 /\ hist'.n > 0 => hist'.last = hist.last
        /\ \A c \in Callers : StepOf(c, ReaderOps) => disk' = disk ]_vars

\* load_cached_index, another reader operation, load_cached_index again,
\* on a cache that has files
C6_Witness ==
    /\ hist.n = 3
    /\ hist.last # <<>>
    /\ Returned("a", "load_cached_index")
    /\ call["a"].ret = hist.last

\* the file is missing, cannot be opened, or its text does not deserialize
Unloadable(d) == ~d.exists \/ ~d.perm \/ ~Deserialize(d.data).some

\* C7: when the file is missing, unreadable or does not deserialize, load
\* gives the default cache (last_updated 0, no files), and load_cached_index
\* and get_recent_files return the empty sequence.
C7_UnloadableCacheIsDefault ==
    /\ [](Unloadable(disk)
            => load_cache(disk) = [last_updated |-> 0, files |-> <<>>])
    /\ [][ \A c \in Callers :
             Unloadable(disk)
               /\ StepOf(c, {"load_cached_index", "get_recent_files"})
               => call'[c].ret = <<>> ]_vars

\* load_cached_index returned from a file that is cut off before its end
C7_Witness ==
    /\ Returned("a", "load_cached_index")
    /\ hist.n > 0
    /\ disk.exists /\ disk.perm
    /\ Len(disk.data) > CacheFrameTokens
    /\ ~Deserialize(disk.data).some
    /\ call["a"].ret = <<>>

\* the entries rebuild_index accepts in the walk of one folder
Accepted(root) ==
    { id \in WalkSet(home, root, REBUILD_MAX_DEPTH) :
        ~home[id].err /\ passes_filter(home[id]) /\ home[id].meta_ok }

ExistingFolders ==
    { FolderEntry(home, scan_folders[i]) : i \in DOMAIN scan_folders } \ {0}

AllAccepted == UNION { Accepted(root) : root \in ExistingFolders }

PathsOf(s) == { s[i].file_path : i \in DOMAIN s }

\* C8: after a rebuild_index whose save did not fail, and while nobody wrote
\* the file since, the file is the serialization of exactly the returned
\* sequence, with last_updated a clock value of the time of the call; the
\* returned sequence is ordered by date_value non-increasing and has exactly
\* one entry for every entry the walks of the existing curated folders
\* accept, so no cut and nothing kept from the snapshot before.
C8_RebuildPersistsWhatItReturns ==
    \A c \in Callers :
        Returned(c, "rebuild_index") /\ call[c].saved = "yes"
          /\ hist.writer = c
            => /\ disk.exists
               /\ disk.data =
                    Serialize([last_updated |-> call[c].cache.last_updated,
                               files |-> call[c].ret])
               /\ load_cache(disk).files = call[c].ret
               /\ call[c].started <= load_cache(disk).last_updated
               /\ load_cache(disk).last_updated <= now
               /\ DatesNonIncreasing(call[c].ret)
               /\ PathsOf(call[c].ret)
                    = { PathOf(home, id) : id \in AllAccepted }
               /\ Len(call[c].ret) = Cardinality(AllAccepted)

\* more than 50 entries were indexed and saved, after the walk took time
C8_Witness ==
    /\ Returned("a", "rebuild_index")
    /\ call["a"].saved = "yes"
    /\ hist.writer = "a"
    /\ Len(call["a"].ret) > 50
    /\ load_cache(disk).files = call["a"].ret
    /\ call["a"].started < load_cache(disk).last_updated

\* no curated folder holds an entry
NothingInFolders ==
    \A root \in ExistingFolders : \A id \in DOMAIN home : home[id].parent # root

SavedBy(c) == call[c].saved = "yes" /\ hist.writer = c

\* C9 as stated: when no curated folder exists, or those that exist contain
\* nothing, rebuild_index returns the empty sequence and the cache saved has
\* no files.
C9_AsStated ==
    \A c \in Callers :
        Returned(c, "rebuild_index") /\ NothingInFolders
            => /\ call[c].ret = <<>>
               /\ SavedBy(c) => load_cache(disk).files = <<>>

\* C9: when no curated folder exists, rebuild_index returns the empty
\* sequence and the cache it saves is a well-formed cache without files; a
\* curated folder that does not exist is skipped, and every curated folder
\* that exists has its own directory entry in the result, also when it
\* contains nothing.
C9_NoFolderNoEntries ==
    \A c \in Callers :
        Returned(c, "rebuild_index")
            => /\ ExistingFolders = {}
                    => /\ call[c].ret = <<>>
                       /\ SavedBy(c) =>
                            /\ Deserialize(disk.data).some
                            /\ load_cache(disk).files = <<>>
               /\ \A root \in ExistingFolders :
                     PathOf(home, root) \in PathsOf(call[c].ret)

\* rebuild_index returned, and saved, in a home directory where one curated
\* folder is missing and the others are empty
C9_Witness ==
    /\ Returned("a", "rebuild_index")
    /\ SavedBy("a")
    /\ ExistingFolders # {}
    /\ Cardinality(ExistingFolders) < Len(scan_folders)
    /\ NothingInFolders
    /\ Len(call["a"].ret) = Cardinality(ExistingFolders)

\* a timestamp as the claim reads it: whole seconds since the epoch, 0 when
\* the metadata, or this timestamp of it, cannot be had (a time before the
\* epoch has no such value)
ClaimedSecs(e, t) == IF e.meta_ok /\ t.ok /\ t.secs >= 0 THEN t.secs ELSE 0

Max(a, b) == IF a >= b THEN a ELSE b

DatesAsClaimed(r, e) ==
    /\ r.date_value = Max(ClaimedSecs(e, e.mtime), ClaimedSecs(e, e.ctime))
    /\ r.date_kind = "Created"
         <=> ClaimedSecs(e, e.ctime) > ClaimedSecs(e, e.mtime)

EntryAt(path) == CHOOSE id \in DOMAIN home : PathOf(home, id) = path

Yielded ==
    UNION { { id \in WalkSet(home, root, REBUILD_MAX_DEPTH) :
                ~home[id].err /\ home[id].meta_ok } : root \in ExistingFolders }

\* the entry's name has an extension that, in lowercase, is in the allowlist
AllowlistedExtension(e) ==
    /\ extension(e.name).some
    /\ to_lowercase(extension(e.name).v) \in allowed_extensions

\* C11 as stated: of the entries the rebuild_index walk yields, every
\* directory is in the result, whatever the extension of its name, and a
\* regular file is in the result only when it has an extension that is in
\* the allowlist, compared in lowercase.
C11_AsStated ==
    \A c \in Callers :
        Returned(c, "rebuild_index")
            => \A id \in Yielded :
                 /\ home[id].ftype = "dir"
                      => PathOf(home, id) \in PathsOf(call[c].ret)
                 /\ home[id].ftype = "file"
                       /\ PathOf(home, id) \in PathsOf(call[c].ret)
                      => AllowlistedExtension(home[id])

\* the kind as the claim reads it: decided on the lowercased extension
ClaimedKind(name, is_folder) ==
    LET e == extension(name)
        low == to_lowercase(e.v)
    IN  IF is_folder THEN [label |-> "Folder", ext |-> <<>>]
        ELSE IF ~e.some THEN [label |-> "Document", ext |-> <<>>]
        ELSE IF \E i \in DOMAIN KindTable : KindTable[i][1] = low
             THEN [label |-> KindTable[CHOOSE i \in DOMAIN KindTable :
                                          KindTable[i][1] = low][2],
                   ext |-> <<>>]
             ELSE [label |-> "{} File", ext |-> to_uppercase(e.v)]

\* C14 as stated: the kind of every entry rebuild_index or search_files
\* produces is "Folder" for a folder, otherwise the table's label of the
\* extension taken case-insensitively ("pdf" and "PDF" both give "PDF
\* Document"), otherwise "<EXT> File" with the extension in upper case,
\* and "Document" when there is no extension.
C14_AsStated ==
    \A c \in Callers :
        Returned(c, "rebuild_index") \/ Returned(c, "search_files")
            => \A i \in DOMAIN call[c].ret :
                 call[c].ret[i].file_kind =
                    ClaimedKind(call[c].ret[i].file_name,
                                call[c].ret[i].is_folder)

\* entry id is a file of this name in a curated folder, last modified
\* `days` whole days before time t and not created since
ModifiedDaysBefore(id, name, days, t) ==
    /\ \E root \in ExistingFolders : home[id].parent = root
    /\ home[id].name = name
    /\ home[id].ftype = "file"
    /\ home[id].mtime.ok
    /\ (t - home[id].mtime.secs) \div DAY_SECS = days
    /\ get_best_date(home[id]).kind = "Modified"

\* the cache file holds the index of the home directory as it is: one entry
\* for each entry rebuild_index accepts, as rebuild_index builds it
CacheIsSnapshot ==
    LET fs == load_cache(disk).files IN
    /\ Len(fs) = Cardinality(AllAccepted)
    /\ \A id \in AllAccepted :
          \E i \in DOMAIN fs : fs[i] = rebuild_visit(home[id], id).v

\* what this step of get_recent_files returns has report.pdf and not
\* notes.txt
ReportNotNotes(c) ==
    \A id \in DOMAIN home :
       /\ ModifiedDaysBefore(id, ReportPdf, 1, now)
            => PathOf(home, id) \in PathsOf(call'[c].ret)
       /\ ModifiedDaysBefore(id, NotesTxt, 10, now)
            => PathOf(home, id) \notin PathsOf(call'[c].ret)

C13_NoErrorSurfaces ==
    /\ [](\A c \in Callers :
            /\ call[c].pc = "idle"
                 => \A i \in DOMAIN call[c].ret :
                       call[c].ret[i].file_path # <<>>
            /\ Returned(c, "rebuild_index")
                 => /\ call[c].saved \in {"yes", "failed"}
                    /\ call[c].ret = sort_by_date_desc(call[c].sink)
                    /\ PathsOf(call[c].ret)
                         = { PathOf(home, id) : id \in AllAccepted }
                    /\ Len(call[c].ret) = Cardinality(AllAccepted))
    /\ [][ \A c \in Callers :
             call[c].pc \in {"save", "write"} /\ call'[c] # call[c]
               => \/ call'[c].pc = "write"
                  \/ /\ call'[c].pc = "idle"
                     /\ call'[c].ret = call[c].final ]_vars

\* rebuild_index returned entries although the cache file could not be
\* created
C13_Witness ==
    /\ Returned("a", "rebuild_index")
    /\ call["a"].saved = "failed"
    /\ ~CanCreate(disk)
    /\ Len(call["a"].ret) > 1
    /\ load_cache(disk).files # call["a"].ret

\* C19 as stated: when the save of rebuild_index fails, at the creation of
\* the file or at the write, the file keeps the content it had before the
\* save, so that a load gives the snapshot of before.
C19_AsStated ==
    [][ \A c \in Callers :
          /\ call[c].pc \in {"save", "write"}
          /\ call'[c].pc = "idle"
          /\ call'[c].saved = "failed"
          => /\ disk' = call'[c].before
             /\ load_cache(disk') = load_cache(call'[c].before) ]_vars

\* C16: at every point of a search_files walk, under every interleaving of
\* the workers, the sink holds at most 2000 entries; once it holds 2000, no
\* step appends to it, and every worker that leaves the critical section
\* with a match has the walk quit.
C16_SinkNeverOverCap ==
    /\ [](\A c \in Callers :
            call[c].op = "search_files" => Len(call[c].sink) <= 2000)
    /\ [][ \A c \in Callers :
             /\ call[c].op = "search_files"
             /\ call[c].pc = "walk"
             /\ Len(call[c].sink) = 2000
             => /\ call'[c].sink = call[c].sink
                /\ \A w \in Workers :
                      call[c].held[w].busy /\ ~call'[c].held[w].busy
                        => call'[c].quit ]_vars

\* the sink is full, one worker has been told to quit and another still
\* holds a match it found when the sink was not yet full
C16_Witness ==
    /\ call["a"].op = "search_files"
    /\ call["a"].pc = "walk"
    /\ Len(call["a"].sink) = 2000
    /\ call["a"].quit
    /\ \E w \in Workers : call["a"].held[w].busy
    /\ call["a"].todo # {}

\* the entries a search_files walk can visit whose name matches the query
Matching(query) ==
    { id \in WalkSet(home, 1, SEARCH_MAX_DEPTH) :
        ~home[id].err /\ fuzzy_match(home[id].name, query).some }

\* C20 as stated: under every interleaving of the workers, no matching entry
\* the walk can visit that is not in the output of search_files has a score
\* strictly greater than the score of a returned entry.
C20_AsStated ==
    \A c \in Callers :
        Returned(c, "search_files")
            => \A id \in Matching(call[c].query) :
                 PathOf(home, id) \notin PathsOf(call[c].ret)
                   => \A j \in DOMAIN call[c].ret :
                         fuzzy_match(home[id].name, call[c].query).v
                            <= call[c].ret[j].score

\* C20: under every interleaving of the workers, no entry collected in the
\* sink and left out of the output of search_files has a score strictly
\* greater than the score of a returned entry; and when the walk can visit
\* at most 2000 matching entries, no matching entry left out has.
C20_TopOfCollected ==
    \A c \in Callers :
        Returned(c, "search_files")
            => /\ \A i \in DOMAIN call[c].sink :
                    call[c].sink[i].file_path \notin PathsOf(call[c].ret)
                      => \A j \in DOMAIN call[c].ret :
                            call[c].sink[i].score <= call[c].ret[j].score
               /\ Cardinality(Matching(call[c].query)) <= 2000
                    => \A id \in Matching(call[c].query) :
                         PathOf(home, id) \notin PathsOf(call[c].ret)
                           => \A j \in DOMAIN call[c].ret :
                                 fuzzy_match(home[id].name, call[c].query).v
                                    <= call[c].ret[j].score

\* a search with more than 2000 matches: the sink was filled, 50 entries
\* were returned and a collected entry of a lower score was left out
C20_Witness ==
    /\ Returned("a", "search_files")
    /\ Cardinality(Matching(call["a"].query)) > 2000
    /\ Len(call["a"].sink) = 2000
    /\ Len(call["a"].ret) = 50
    /\ \E i \in DOMAIN call["a"].sink :
          call["a"].sink[i].score < call["a"].ret[50].score

\* what a reader operation returns from a snapshot
ReaderResult(op, snap, t) ==
    IF op = "load_cached_index" THEN snap.files ELSE recent_files(snap, t)

\* C17 as stated: a load_cached_index or get_recent_files that runs while a
\* rebuild_index of another caller is in its cache save, between the
\* creation of the file and the end of the write, finds a file that
\* deserializes and returns what the complete snapshot of before the save
\* gives, or what the complete new snapshot gives.
C17_AsStated ==
    [][ \A c, d \in Callers :
          /\ c # d
          /\ StepOf(c, {"load_cached_index", "get_recent_files"})
          /\ call[d].pc = "write"
          => /\ Deserialize(disk.data).some
             /\ \E snap \in { load_cache(call[d].before), call[d].cache } :
                   call'[c].ret = ReaderResult(call'[c].op, snap, now) ]_vars

\* both callers are back from a rebuild_index whose save did not fail
BothSaved ==
    \A c \in Callers : Returned(c, "rebuild_index") /\ call[c].saved = "yes"

\* C18 as stated: when two rebuild_index calls have run concurrently and
\* both have completed their save, the file is the complete snapshot of the
\* call whose save finished last: it deserializes, and to the cache of one
\* of the two calls, not to a mixture.
C18_AsStated ==
    BothSaved
        => /\ Deserialize(disk.data).some
           /\ \E c \in Callers : disk.data = Serialize(call[c].cache)
           /\ disk.data = Serialize(call[hist.writer].cache)

FileOps == {"move_files", "copy_files", "trash_files", "compress_files"}

\* C15 as stated: for move_files, copy_files, trash_files and compress_files
\* over any list of paths, success is false whenever an item of the list was
\* not processed, and affected_count is the number of items of the list
\* that were processed.
C15_AsStated ==
    \A c \in Callers :
        call[c].pc = "idle" /\ call[c].op \in FileOps
            => /\ (\E i \in DOMAIN call[c].paths : i \notin call[c].processed)
                    => ~call[c].ret.success
               /\ call[c].ret.affected_count = Cardinality(call[c].processed)

\* the entries of the walks of the existing curated folders whose metadata
\* cannot be read
Unreadable ==
    UNION { { id \in WalkSet(home, root, REBUILD_MAX_DEPTH) :
                ~home[id].err /\ ~home[id].meta_ok } : root \in ExistingFolders }

\* the positions of the sequence s that hold the entry id of the file system
PositionsOf(s, id) == { i \in DOMAIN s : s[i].file_path = PathOf(home, id) }

\* C21: under every interleaving of the workers, the sequence rebuild_index
\* returns has exactly one entry for every entry the walks of the existing
\* curated folders visit that passes the extension filter and whose metadata
\* can be read, with no cap, and it has nothing else: an entry whose
\* metadata cannot be read is left out and the walk goes on to the entries
\* after it.  While the walks run, no entry is twice in the sink.
C21_NothingLostNothingTwice ==
    \A c \in Callers :
        /\ call[c].op = "rebuild_index"
             => LET paths == [i \in DOMAIN call[c].sink |->
                                call[c].sink[i].file_path]
                IN  Cardinality({ paths[i] : i \in DOMAIN paths })
                       = Len(paths)
        /\ Returned(c, "rebuild_index")
             => LET accepted == AllAccepted
                    ret == call[c].ret
                IN  /\ \A id \in accepted :
                          LET at == PositionsOf(ret, id) IN
                          /\ Cardinality(at) = 1
                          /\ \A i \in at :
                                ret[i] = rebuild_visit(home[id], id).v
                    /\ Len(ret) = Cardinality(accepted)
                    /\ \A id \in Unreadable : PositionsOf(ret, id) = {}

\* rebuild_index returned the three entries it accepts in the folder whose
\* walk is interleaved, one of them from below a directory it rejects, past
\* an entry whose metadata cannot be read
C21_Witness ==
    /\ home = MixedHome
    /\ Returned("a", "rebuild_index")
    /\ Unreadable # {}
    /\ Cardinality(AllAccepted) = 3
    /\ \A id \in AllAccepted : Cardinality(PositionsOf(call["a"].ret, id)) = 1
    /\ \E id \in AllAccepted : home[id].parent \notin AllAccepted \cup {1}

====
